---------------------------- MODULE Spec2Model ----------------------------
(***************************************************************************)
(* A model of run.py, the Streamlit script of the F1 dashboard.            *)
(*                                                                         *)
(* One script run is: sidebar (schedule, driver list, widgets), the        *)
(* session load behind the Load button, then the three tabs (telemetry     *)
(* comparison, lap-by-lap, leaderboard).  Streamlit reruns the whole       *)
(* script on every widget event.                                           *)
(*                                                                         *)
(* Durations (pandas Timedelta) are integers counted in ticks, TicksPerMs  *)
(* ticks to the millisecond; NaT is the missing duration.  Strings are     *)
(* sequences of one-character strings, so that what format_time and the    *)
(* gap lambda render can be inspected character by character.              *)
(***************************************************************************)
EXTENDS Integers, Sequences, FiniteSets, TLC

VARIABLES
    pc,               \* position of the script run
    trigger,          \* the event that started this run
    load_btn,         \* st.sidebar.button("Load Dashboard") of this run
    schedule,         \* what get_race_schedule returned
    gp,               \* the Grand Prix selectbox
    drivers,          \* what get_driver_list returned
    d1, d2,           \* the two driver selectboxes
    laps,             \* session.laps
    rendered,         \* the messages and elements this run has rendered
    cmp,              \* tab 1: l1, l2, delta and the verdict
    selected_drivers, \* tab 2: the multiselect
    driver_laps,      \* tab 2: the filtered table that is plotted
    tie,              \* tab 3: how sort_values ordered equal lap times
    final_grid,       \* tab 3: the displayed leaderboard
    td,               \* the argument of a format_time call
    out               \* the result of that format_time call

vars == <<pc, trigger, load_btn, schedule, gp, drivers, d1, d2, laps, rendered,
          cmp, selected_drivers, driver_laps, tie, final_grid, td, out>>

----------------------------------------------------------------------------
(* Bounds of the model *)

TicksPerMs == 5      \* resolution of a duration: one tick is 200 microseconds
MaxMinutes == 2      \* format_time is applied to durations below MaxMinutes+1 minutes
MaxLaps == 3         \* rows of a lap table explored by the tab pipeline
MaxRunLaps == 2      \* rows of session.laps in a full script run
NDrivers == 2        \* drivers that take part in a session

----------------------------------------------------------------------------
(* Values *)

NaT == -1            \* pd.NaT / None: the missing duration (pd.isna is true of it)
None == <<>>         \* Python's None; a value v that may be None is held as <<v>>
NaN == "NaN"         \* the blank cell a left merge leaves when nothing matches

TicksPerSecond == 1000 * TicksPerMs
TicksPerMinute == 60 * TicksPerSecond

Seconds(s, ms) == (s * 1000 + ms) * TicksPerMs

Min2(a, b) == IF a <= b THEN a ELSE b

----------------------------------------------------------------------------
(* Strings as sequences of characters *)

DigitChars == <<"0", "1", "2", "3", "4", "5", "6", "7", "8", "9">>

RECURSIVE IntStr(_)
\* str(n) / "{n}" of a non-negative integer
IntStr(n) ==
    IF n < 10 THEN <<DigitChars[n + 1]>>
    ELSE IntStr(n \div 10) \o <<DigitChars[(n % 10) + 1]>>

\* round(x / TicksPerMs): what the ".3f" conversion does to a value in seconds
RoundMs(ticks) == (2 * ticks + TicksPerMs) \div (2 * TicksPerMs)

\* "{x:.3f}": integer part, a point, three decimals
Fixed3(ticks) ==
    LET ms == RoundMs(ticks)
        f  == ms % 1000
    IN  IntStr(ms \div 1000) \o <<".">>
        \o <<DigitChars[(f \div 100) + 1], DigitChars[((f \div 10) % 10) + 1],
             DigitChars[(f % 10) + 1]>>

\* "{x:06.3f}": the same, zero-padded on the left to six characters
Fixed3Width6(ticks) ==
    LET s == Fixed3(ticks)
    IN  IF Len(s) >= 6 THEN s ELSE [i \in 1..(6 - Len(s)) |-> "0"] \o s

\* format_time(td)
format_time(t) ==
    IF t = NaT THEN <<>>
    ELSE LET total_seconds == t
             minutes == total_seconds \div TicksPerMinute
             seconds == total_seconds % TicksPerMinute
         IN  IntStr(minutes) \o <<":">> \o Fixed3Width6(seconds)

----------------------------------------------------------------------------
(* Lap tables *)

DriverNames == <<"ALO", "HAM", "VER", "ZHO">>

\* the drivers of a session, in alphabetical order
AllDrivers == SubSeq(DriverNames, 1, Min2(NDrivers, Len(DriverNames)))

Range(s) == {s[i] : i \in 1..Len(s)}

DriverSet == Range(AllDrivers)

\* position of a driver identifier in alphabetical order
DriverIdx(d) == CHOOSE i \in 1..Len(DriverNames) : DriverNames[i] = d

Compounds == {"SOFT", "HARD"}

LapTimes == {NaT, Seconds(90, 0), Seconds(91, 500)}

\* One row of session.laps.  Pit says that the lap is a pit-in or pit-out lap;
\* Quick is the verdict of the library's quick-lap classification on the lap,
\* which the script takes as given.
LapRecord == [Driver : DriverSet, LapTime : LapTimes, Compound : Compounds,
              Pit : BOOLEAN, Quick : BOOLEAN]

SeqsUpTo(S, n) == UNION {[1..k -> S] : k \in 0..n}

\* every lap table: the classification may accept any lap
LapTables == SeqsUpTo(LapRecord, MaxLaps)

\* the lap tables in which every lap that is classified quick has a duration
TimedLapTables ==
    SeqsUpTo({r \in LapRecord : r.Quick => r.LapTime # NaT}, MaxLaps)

\* the lap tables of a session without pit stop, slow lap or aborted lap
PlainLapTables ==
    SeqsUpTo({r \in LapRecord : r.Quick /\ ~r.Pit /\ r.LapTime # NaT}, MaxLaps)

\* the lap tables of a full script run: no pit stop, one compound, and a lap
\* is quick exactly when it has a duration
RunLapTables ==
    SeqsUpTo({r \in LapRecord : r.Compound = "SOFT" /\ ~r.Pit
                                /\ (r.Quick <=> r.LapTime # NaT)}, MaxRunLaps)

\* laps[laps['Driver'].isin(selected)].copy()
IsIn(tbl, selected) == SelectSeq(tbl, LAMBDA r : r.Driver \in Range(selected))

\* laps.pick_driver(d)
pick_driver(tbl, d) == SelectSeq(tbl, LAMBDA r : r.Driver = d)

\* laps.pick_quicklaps(): the rows the library classifies as quick
pick_quicklaps(tbl) == SelectSeq(tbl, LAMBDA r : r.Quick)

\* dropna(subset=['LapTime'])
dropna(tbl) == SelectSeq(tbl, LAMBDA r : r.LapTime # NaT)

\* the set of non-missing lap times of a table
Timed(tbl) == {tbl[i].LapTime : i \in 1..Len(tbl)} \ {NaT}

\* Series.min(): the least non-missing value, NaT when there is none
MinTime(tbl) ==
    IF Timed(tbl) = {} THEN NaT
    ELSE CHOOSE t \in Timed(tbl) : \A u \in Timed(tbl) : t <= u

\* laps.pick_fastest(): the first row that holds the least lap time, None
\* when no row has a time
pick_fastest(tbl) ==
    IF Timed(tbl) = {} THEN None
    ELSE LET i == CHOOSE i \in 1..Len(tbl) :
                      /\ tbl[i].LapTime = MinTime(tbl)
                      /\ \A j \in 1..(i - 1) : tbl[j].LapTime # MinTime(tbl)
         IN  <<tbl[i]>>

----------------------------------------------------------------------------
(* Tab 3: the leaderboard *)

\* .groupby("Driver")["LapTime"].min().reset_index(): one row for each driver
\* of the table, in ascending order of the driver key
groupby_min(tbl) ==
    LET present == {tbl[i].Driver : i \in 1..Len(tbl)}
        keys    == SelectSeq(DriverNames, LAMBDA d : d \in present)
    IN  [i \in 1..Len(keys) |->
            [Driver |-> keys[i], LapTime |-> MinTime(pick_driver(tbl, keys[i]))]]

\* The orders in which a sort may leave rows of equal lap time.  sort_values
\* runs with its default kind, quicksort, which is not a stable sort: the
\* order of equal keys is whatever the build's sort produces.
TieOrders == {o \in [DriverSet -> 1..Len(AllDrivers)] :
                 \A a, b \in DriverSet : a # b => o[a] # o[b]}

\* the order a stable sort would keep: that of the rows groupby produced
StableOrder == [d \in DriverSet |-> DriverIdx(d)]

\* a sorts strictly before b: ascending lap time, equal times by o; the rows
\* without a time come last, in the order they had
Before(a, b, o) ==
    IF a.LapTime = NaT /\ b.LapTime = NaT THEN DriverIdx(a.Driver) < DriverIdx(b.Driver)
    ELSE IF a.LapTime = b.LapTime THEN o[a.Driver] < o[b.Driver]
    ELSE IF a.LapTime = NaT THEN FALSE
    ELSE IF b.LapTime = NaT THEN TRUE
    ELSE a.LapTime < b.LapTime

\* fastest_laps.sort_values("LapTime")
sort_values(rows, o) ==
    [k \in 1..Len(rows) |->
        CHOOSE r \in Range(rows) :
            Cardinality({q \in Range(rows) : Before(q, r, o)}) = k - 1]

\* fastest_laps["LapTime"] - pole_time, element by element
Minus(t, pole) == IF t = NaT \/ pole = NaT THEN NaT ELSE t - pole

\* lambda x: f"+{x.total_seconds():.3f}s" if x.total_seconds() > 0 else "-"
gap_str(x) ==
    IF x # NaT /\ x > 0 THEN <<"+">> \o Fixed3(x) \o <<"s">> ELSE <<"-">>

\* the rows pd.merge(left row, right, on=['Driver', 'LapTime'], how='left')
\* gives for one left row: one for each matching right row, in the right
\* table's order (missing keys match each other), one blank row when none
merge_row(l, right) ==
    LET m == SelectSeq(right, LAMBDA r : r.Driver = l.Driver /\ r.LapTime = l.LapTime)
    IN  IF m = <<>>
        THEN <<[Pos |-> l.Pos, Driver |-> l.Driver, Time |-> l.Time,
                Gap |-> l.Gap, Compound |-> NaN]>>
        ELSE [i \in 1..Len(m) |->
                [Pos |-> l.Pos, Driver |-> l.Driver, Time |-> l.Time,
                 Gap |-> l.Gap, Compound |-> m[i].Compound]]

RECURSIVE merge(_, _)
\* pd.merge(fastest_laps, laps[['Driver', 'LapTime', 'Compound']], how='left'),
\* cut to the columns of final_grid
merge(left, right) ==
    IF left = <<>> THEN <<>>
    ELSE merge_row(Head(left), right) \o merge(Tail(left), right)

\* The body of tab 3 on the lap table tbl, with o the order the sort leaves
\* equal lap times in: the rows of final_grid, <<>> when fastest_laps is empty
leaderboard(tbl, o) ==
    LET fastest_laps == groupby_min(pick_quicklaps(tbl))
    IN  IF fastest_laps = <<>> THEN <<>>
        ELSE LET sorted    == sort_values(fastest_laps, o)
                 pole_time == sorted[1].LapTime
                 withcols  == [i \in 1..Len(sorted) |->
                                 [Pos      |-> i,
                                  Driver   |-> sorted[i].Driver,
                                  LapTime  |-> sorted[i].LapTime,
                                  Time     |-> format_time(sorted[i].LapTime),
                                  Gap      |-> gap_str(Minus(sorted[i].LapTime, pole_time))]]
             IN  merge(withcols, tbl)
----------------------------------------------------------------------------
(* Tab 1 and tab 2 *)

\* delta with the two laps exchanged
delta_of_swapped(l1, l2) == l1.LapTime - l2.LapTime

\* delta = (l2['LapTime'] - l1['LapTime']).total_seconds()
delta_of(l1, l2) == l2.LapTime - l1.LapTime

\* 'faster' if delta > 0 else 'slower'
verdict_of(delta) == IF delta > 0 THEN "faster" ELSE "slower"

\* if l1 is None or l2 is None
no_time(l1, l2) == l1 = None \/ l2 = None

NoCmp == [l1 |-> None, l2 |-> None, t1 |-> None, t2 |-> None,
          delta |-> None, verdict |-> None]

\* The rows of tab 2's driver_laps: the selected drivers' rows (a copy), then
\* pick_quicklaps, then dropna on LapTime.  The LapTimeSec column added
\* afterwards changes no row and is left out.
quick_filter(tbl, selected) == dropna(pick_quicklaps(IsIn(tbl, selected)))

----------------------------------------------------------------------------
(* The script run *)

NoGp == "None"
NoDriver == "None"
EventNames == {"Monaco"}

\* schedule['EventName'].tolist(), and what the selectbox returns for it
GpOptions(sched) == IF sched = "rows" THEN EventNames ELSE {NoGp}

\* sorted(session.results['Abbreviation'].unique().tolist())
SortedList(S) == SelectSeq(DriverNames, LAMBDA d : d \in S)

\* What get_driver_list can return: [] when the session cannot be found or
\* loaded (always so when gp is None), else the sorted abbreviations
DriverLists(g) ==
    IF g = NoGp THEN {<<>>} ELSE {SortedList(S) : S \in SUBSET DriverSet}

\* a button that stays pressed over the reruns of the widgets below it
button_value_sticky(trig) == trig \in {"load_click", "multiselect"}

\* st.sidebar.button: True only in the run that its click started
button_value(trig) == trig = "load_click"

\* the widget events that can start a rerun, given what the last run rendered
Events(shown) ==
    {"widget"}
    \cup (IF "load_button" \in shown THEN {"load_click"} ELSE {})
    \cup (IF "tab2_multiselect" \in shown THEN {"multiselect"} ELSE {})

Init ==
    /\ pc = "sidebar"
    /\ trigger = "first"
    /\ load_btn = FALSE
    /\ schedule = "unset"
    /\ gp = NoGp
    /\ drivers = <<>>
    /\ d1 = NoDriver
    /\ d2 = NoDriver
    /\ laps = <<>>
    /\ rendered = {}
    /\ cmp = NoCmp
    /\ selected_drivers = <<>>
    /\ driver_laps = <<>>
    /\ tie = StableOrder
    /\ final_grid = <<>>
    /\ td = NaT
    /\ out = <<>>

\* Lines 50-66.  A failed get_race_schedule returns pd.DataFrame(), which has
\* no 'EventName' column: schedule['EventName'] raises KeyError and the run ends.
Sidebar ==
    /\ pc = "sidebar"
    /\ \E sched \in {"failed", "empty", "rows"} :
        /\ schedule' = sched
        /\ IF sched = "failed"
           THEN /\ pc' = "crashed"
                /\ UNCHANGED <<gp, drivers, d1, d2, load_btn, rendered>>
           ELSE \E g \in GpOptions(sched) : \E dl \in DriverLists(g) :
                /\ gp' = g
                /\ drivers' = dl
                /\ IF dl # <<>>
                   THEN /\ \E a, b \in Range(dl) :
                             /\ trigger = "first" =>
                                    a = dl[1] /\ b = dl[Min2(1, Len(dl) - 1) + 1]
                             /\ d1' = a
                             /\ d2' = b
                        /\ load_btn' = button_value(trigger)
                        /\ rendered' = rendered \cup {"load_button"}
                   ELSE /\ UNCHANGED <<d1, d2>>
                        /\ load_btn' = FALSE
                        /\ rendered' = rendered \cup {"sidebar_warning"}
                /\ pc' = "main"
    /\ UNCHANGED <<trigger, laps, cmp, selected_drivers, driver_laps, tie,
                   final_grid, td, out>>

\* Lines 69-82 and 209-210
Main ==
    /\ pc = "main"
    /\ IF load_btn
       THEN \/ /\ rendered' = rendered \cup {"title", "error_load"}
               /\ pc' = "stopped"
               /\ UNCHANGED laps
            \/ /\ laps' \in RunLapTables
               /\ rendered' = rendered \cup {"title", "tabs"}
               /\ pc' = "tab1"
       ELSE /\ rendered' = rendered \cup {"info_select"}
            /\ pc' = "done"
            /\ UNCHANGED laps
    /\ UNCHANGED <<trigger, load_btn, schedule, gp, drivers, d1, d2, cmp,
                   selected_drivers, driver_laps, tie, final_grid, td, out>>

\* Lines 85-111.  get_car_data() can raise for either lap; the except clause
\* then renders the error.
Tab1 ==
    /\ pc = "tab1"
    /\ LET l1 == pick_fastest(pick_driver(laps, d1))
           l2 == pick_fastest(pick_driver(laps, d2))
       IN  IF no_time(l1, l2)
           THEN /\ cmp' = [NoCmp EXCEPT !.l1 = l1, !.l2 = l2]
                /\ rendered' = rendered \cup {"tab1_warning"}
           ELSE \E tel \in {"ok", "fail1", "fail2"} :
                IF tel = "ok"
                THEN LET delta == delta_of(l1[1], l2[1])
                     IN  /\ cmp' = [l1 |-> l1, l2 |-> l2, t1 |-> <<d1>>, t2 |-> <<d2>>,
                                    delta |-> <<delta>>,
                                    verdict |-> <<verdict_of(delta)>>]
                         /\ rendered' = rendered \cup {"tab1_chart", "tab1_gap"}
                ELSE /\ cmp' = [NoCmp EXCEPT !.l1 = l1, !.l2 = l2,
                                   !.t1 = IF tel = "fail2" THEN <<d1>> ELSE None]
                     /\ rendered' = rendered \cup {"tab1_error"}
    /\ pc' = "tab2"
    /\ UNCHANGED <<trigger, load_btn, schedule, gp, drivers, d1, d2, laps,
                   selected_drivers, driver_laps, tie, final_grid, td, out>>

\* Lines 114-158.  The multiselect is created in this run, so it holds its
\* default, [d1, d2].
Tab2 ==
    /\ pc = "tab2"
    /\ selected_drivers' = <<d1, d2>>
    /\ IF selected_drivers' # <<>>
       THEN /\ driver_laps' = quick_filter(laps, selected_drivers')
            /\ rendered' = rendered \cup {"tab2_multiselect", "tab2_chart"}
       ELSE /\ driver_laps' = <<>>
            /\ rendered' = rendered \cup {"tab2_multiselect"}
    /\ pc' = "tab3"
    /\ UNCHANGED <<trigger, load_btn, schedule, gp, drivers, d1, d2, laps, cmp,
                   tie, final_grid, td, out>>

\* Lines 161-207
Tab3 ==
    /\ pc = "tab3"
    /\ \E o \in TieOrders :
        /\ tie' = o
        /\ final_grid' = leaderboard(laps, o)
    /\ rendered' = rendered \cup
           {IF groupby_min(pick_quicklaps(laps)) # <<>> THEN "tab3_grid" ELSE "tab3_info"}
    /\ pc' = "done"
    /\ UNCHANGED <<trigger, load_btn, schedule, gp, drivers, d1, d2, laps, cmp,
                   selected_drivers, driver_laps, td, out>>

\* A widget event: Streamlit runs the script again from the top
Rerun ==
    /\ pc \in {"done", "stopped", "crashed"}
    /\ trigger' \in Events(rendered)
    /\ pc' = "sidebar"
    /\ load_btn' = FALSE
    /\ schedule' = "unset"
    /\ gp' = NoGp
    /\ drivers' = <<>>
    /\ d1' = NoDriver
    /\ d2' = NoDriver
    /\ laps' = <<>>
    /\ rendered' = {}
    /\ cmp' = NoCmp
    /\ selected_drivers' = <<>>
    /\ driver_laps' = <<>>
    /\ tie' = StableOrder
    /\ final_grid' = <<>>
    /\ UNCHANGED <<td, out>>

Next == Sidebar \/ Main \/ Tab1 \/ Tab2 \/ Tab3 \/ Rerun

Spec == Init /\ [][Next]_vars

----------------------------------------------------------------------------
(* The tabs on the lap tables up to MaxLaps rows: the state right after a    *)
(* successful session load, for the tables a session may hold               *)

AfterLoad(tables) ==
    /\ pc = "tab1"
    /\ trigger = "load_click"
    /\ load_btn = TRUE
    /\ schedule = "rows"
    /\ gp \in EventNames
    /\ drivers = AllDrivers
    /\ d1 = AllDrivers[1]
    /\ d2 = AllDrivers[Min2(1, Len(AllDrivers) - 1) + 1]
    /\ laps \in tables
    /\ rendered = {"load_button", "title", "tabs"}
    /\ cmp = NoCmp
    /\ selected_drivers = <<>>
    /\ driver_laps = <<>>
    /\ tie = StableOrder
    /\ final_grid = <<>>
    /\ td = NaT
    /\ out = <<>>

NextTabs == Tab1 \/ Tab2 \/ Tab3

InitTabs == AfterLoad(LapTables)

SpecTabs == InitTabs /\ [][NextTabs]_vars

InitTimed == AfterLoad(TimedLapTables)

SpecTimed == InitTimed /\ [][NextTabs]_vars

InitPlain == AfterLoad(PlainLapTables)

SpecPlain == InitPlain /\ [][NextTabs]_vars

----------------------------------------------------------------------------
(* format_time on its own *)

\* the durations format_time is tried on: around every minute boundary, and
\* at every tick between two milliseconds
Durations ==
    {NaT} \cup
    {m * TicksPerMinute + Seconds(s, ms) + k :
        m \in 0..MaxMinutes, s \in {0, 23, 59}, ms \in {0, 456, 999},
        k \in 0..(TicksPerMs - 1)}

InitFmt ==
    /\ pc = "format"
    /\ td \in Durations
    /\ out = <<>>
    /\ trigger = "first"
    /\ load_btn = FALSE
    /\ schedule = "unset"
    /\ gp = NoGp
    /\ drivers = <<>>
    /\ d1 = NoDriver
    /\ d2 = NoDriver
    /\ laps = <<>>
    /\ rendered = {}
    /\ cmp = NoCmp
    /\ selected_drivers = <<>>
    /\ driver_laps = <<>>
    /\ tie = StableOrder
    /\ final_grid = <<>>

FormatTime ==
    /\ pc = "format"
    /\ out' = format_time(td)
    /\ pc' = "formatted"
    /\ UNCHANGED <<trigger, load_btn, schedule, gp, drivers, d1, d2, laps,
                   rendered, cmp, selected_drivers, driver_laps, tie,
                   final_grid, td>>

NextFmt == FormatTime

SpecFmt == InitFmt /\ [][NextFmt]_vars
----------------------------------------------------------------------------
(* Vocabulary of the properties *)

\* the drivers that have at least one lap the quick-lap classification accepts
QuickDrivers == {laps[i].Driver : i \in {j \in 1..Len(laps) : laps[j].Quick}}

\* the drivers that have a quick lap with a duration
TimedQuickDrivers ==
    {laps[i].Driver : i \in {j \in 1..Len(laps) : laps[j].Quick /\ laps[j].LapTime # NaT}}

\* a driver's best duration among the quick laps
BestQuick(d) == MinTime(pick_driver(pick_quicklaps(laps), d))

\* index of the first row of the lap table that belongs to driver d
FirstSeen(d) == CHOOSE i \in 1..Len(laps) :
                    laps[i].Driver = d /\ \A j \in 1..(i - 1) : laps[j].Driver # d

\* the rows of the lap table whose (driver, duration) is d's best pair
BestRows(d) == SelectSeq(laps, LAMBDA r : r.Driver = d /\ r.LapTime = BestQuick(d))

GridRowsOf(d) == {i \in 1..Len(final_grid) : final_grid[i].Driver = d}

RECURSIVE IsSubseq(_, _)
\* s is t with some rows left out, the others in their order
IsSubseq(s, t) ==
    IF s = <<>> THEN TRUE
    ELSE IF t = <<>> THEN FALSE
    ELSE IF Head(s) = Head(t) THEN IsSubseq(Tail(s), Tail(t))
    ELSE IsSubseq(s, Tail(t))

DigitVal(c) == (CHOOSE i \in 1..10 : DigitChars[i] = c) - 1

IsDigit(c) == c \in Range(DigitChars)

\* the milliseconds that a "SS.mmm" field shows
FieldMs(f) ==
    DigitVal(f[1]) * 10000 + DigitVal(f[2]) * 1000
    + DigitVal(f[4]) * 100 + DigitVal(f[5]) * 10 + DigitVal(f[6])

Abs(x) == IF x < 0 THEN 0 - x ELSE x

----------------------------------------------------------------------------
(* Properties of tab 2 and tab 3.  C1, C2 and C3 are stated of SpecPlain,    *)
(* C5 and C9 of SpecTimed, C4 of SpecTabs.                                  *)

\* C1: when at least one quick lap is left, the displayed grid has exactly the
\* positions 1..N, N the number of drivers with a quick lap, without gap or
\* duplicate; its rows are in ascending order of best lap duration; and the
\* row at position 1 shows "-" as its gap.
C1_DensePositions ==
    (pc = "done" /\ QuickDrivers # {}) =>
        /\ Len(final_grid) = Cardinality(QuickDrivers)
        /\ \A i \in 1..Len(final_grid) : final_grid[i].Pos = i
        /\ \A i, j \in 1..Len(final_grid) :
               (i < j /\ BestQuick(final_grid[i].Driver) # NaT
                      /\ BestQuick(final_grid[j].Driver) # NaT)
               => BestQuick(final_grid[i].Driver) <= BestQuick(final_grid[j].Driver)
        /\ \A i \in 1..Len(final_grid) :
               final_grid[i].Pos = 1 => final_grid[i].Gap = <<"-">>

\* C2: drivers with the same best lap duration are ranked in the order in
\* which they first appear in the lap table, whatever their identifiers.
C2_TiesByFirstSeen ==
    pc = "done" =>
        \A i, j \in 1..Len(final_grid) :
            LET a == final_grid[i].Driver
                b == final_grid[j].Driver
            IN  (a # b /\ BestQuick(a) = BestQuick(b) /\ FirstSeen(a) < FirstSeen(b))
                => final_grid[i].Pos < final_grid[j].Pos

\* C3: every driver of the leaderboard has exactly one entry, whose compound is
\* that of the first row of the unfiltered lap table that holds the driver's
\* best (driver, duration) pair, and is blank when no row holds it.
C3_OneEntryFirstCompound ==
    pc = "done" =>
        \A d \in QuickDrivers :
            /\ Cardinality(GridRowsOf(d)) = 1
            /\ \A i \in GridRowsOf(d) :
                   final_grid[i].Compound =
                       IF BestRows(d) = <<>> THEN NaN ELSE BestRows(d)[1].Compound

\* C4: a driver is on the leaderboard exactly when the driver has a lap that
\* passes the quick-lap classification and has a duration; no entry has an
\* empty time string.
C4_OnlyTimedQuickDrivers ==
    pc = "done" =>
        /\ \A d \in DriverSet : (GridRowsOf(d) # {}) <=> (d \in TimedQuickDrivers)
        /\ \A i \in 1..Len(final_grid) :
               /\ final_grid[i].Time # <<>>
               /\ BestQuick(final_grid[i].Driver) # NaT

\* C5: the leaderboard built from the lap table is the leaderboard built from
\* the same table passed through the quick-lap filter first.
C5_FilterIdempotent ==
    pc = "done" =>
        final_grid = leaderboard(quick_filter(laps, AllDrivers), tie)

\* C9: the table tab 2 plots is an order-preserving sub-sequence of the
\* session's lap table, no longer than it, with rows of the selected drivers
\* only, without pit-in or pit-out lap and without missing duration.
C9_FilterOutput ==
    pc \in {"tab3", "done"} =>
        /\ IsSubseq(driver_laps, laps)
        /\ Len(driver_laps) <= Len(laps)
        /\ \A i \in 1..Len(driver_laps) :
               /\ driver_laps[i].Driver \in Range(selected_drivers)
               /\ ~driver_laps[i].Pit
               /\ driver_laps[i].LapTime # NaT

\* what the code does guarantee of that table: it is exactly the selected
\* drivers' rows that are classified quick and have a duration, in their order
FilterOutputExact ==
    pc \in {"tab3", "done"} =>
        /\ IsSubseq(driver_laps, laps)
        /\ driver_laps = SelectSeq(laps, LAMBDA r :
               r.Driver \in {d1, d2} /\ r.Quick /\ r.LapTime # NaT)

\* tab 2 and tab 3 leave the session's lap table as it was loaded
LapsUnchanged == [][(pc \in {"tab1", "tab2", "tab3"}) => (laps' = laps)]_vars

----------------------------------------------------------------------------
(* Properties of the script run, stated of Spec *)

\* C6: whichever retrieval fails or comes back empty, the run ends with a
\* warning, info or error message rendered, never with an uncaught exception.
C6_NoDataNeverCrashes ==
    /\ pc # "crashed"
    /\ (pc \in {"done", "stopped"} /\ (schedule = "empty" \/ drivers = <<>>
                                       \/ pc = "stopped"))
       => rendered \cap {"sidebar_warning", "info_select", "error_load"} # {}

HasTime(d) == Timed(pick_driver(laps, d)) # {}

BestTime(d) == MinTime(pick_driver(laps, d))

\* C7: the comparison is computed only when both drivers have a fastest lap;
\* otherwise the warning is shown and neither telemetry nor delta is derived;
\* when computed, delta is driver 2's duration minus driver 1's, and driver 1
\* is reported faster exactly when delta is positive.
C7_Comparison ==
    (pc \in {"tab2", "tab3", "done"} /\ "tabs" \in rendered) =>
        /\ (cmp.delta # None \/ cmp.t1 # None \/ cmp.t2 # None
               \/ "tab1_gap" \in rendered \/ "tab1_chart" \in rendered)
           => (HasTime(d1) /\ HasTime(d2))
        /\ ~(HasTime(d1) /\ HasTime(d2))
           => /\ "tab1_warning" \in rendered
              /\ cmp.t1 = None /\ cmp.t2 = None
              /\ cmp.delta = None /\ cmp.verdict = None
        /\ "tab1_gap" \in rendered <=> cmp.delta # None
        /\ cmp.delta # None
           => /\ cmp.delta[1] = BestTime(d2) - BestTime(d1)
              /\ (cmp.verdict = <<"faster">>) <=> (cmp.delta[1] > 0)
              /\ cmp.verdict \in {<<"faster">>, <<"slower">>}

C7_Witness ==
    /\ pc = "done"
    /\ "tab1_gap" \in rendered
    /\ cmp.delta # None
    /\ cmp.delta[1] > 0
    /\ cmp.verdict = <<"faster">>

\* C10: a run renders the tabs only if the Load button was clicked for that
\* very run, and the button exists only with a non-empty driver list that
\* holds both selected drivers; every run that completes without the click
\* renders the "select a race" message and no tab, the rerun after a change
\* of tab 2's multiselect included.
C10_TabsOnlyOnClick ==
    /\ "tabs" \in rendered
       => /\ trigger = "load_click" /\ load_btn
          /\ drivers # <<>>
          /\ d1 \in Range(drivers) /\ d2 \in Range(drivers)
    /\ "load_button" \in rendered => drivers # <<>>
    /\ (pc = "done" /\ trigger # "load_click")
       => ("info_select" \in rendered /\ "tabs" \notin rendered)
    /\ (pc \notin {"sidebar", "main"} /\ trigger # "load_click")
       => pc \in {"done", "crashed"}

C10_Witness ==
    /\ pc = "done"
    /\ trigger = "multiselect"
    /\ "info_select" \in rendered
    /\ "tabs" \notin rendered

----------------------------------------------------------------------------
(* Property of format_time, stated of SpecFmt *)

\* C8: format_time gives "" for a missing value and, for a duration, "M:SS.mmm"
\* with M the whole minutes and SS.mmm the seconds modulo 60, two integer
\* digits and three decimals, between 00.000 and 59.999; 83.456 s gives
\* "1:23.456" and 0 s gives "0:00.000".
C8_FormatTime ==
    pc = "formatted" =>
        IF td = NaT THEN out = <<>>
        ELSE LET m == IntStr(td \div TicksPerMinute)
                 f == SubSeq(out, Len(m) + 2, Len(out))
             IN  /\ Len(out) = Len(m) + 7
                 /\ SubSeq(out, 1, Len(m) + 1) = m \o <<":">>
                 /\ f[3] = "."
                 /\ \A k \in {1, 2, 4, 5, 6} : IsDigit(f[k])
                 /\ FieldMs(f) \in 0..59999
                 /\ Abs(FieldMs(f) * TicksPerMs - (td % TicksPerMinute)) < TicksPerMs
                 /\ td = Seconds(83, 456) => out = <<"1", ":", "2", "3", ".", "4", "5", "6">>
                 /\ td = 0 => out = <<"0", ":", "0", "0", ".", "0", "0", "0">>

=============================================================================
